---- MODULE Spec2Model ----
(***************************************************************************)
(* State-machine model of tweet-pilot: the Thread entity, the JSON thread  *)
(* history (ThreadGenerator.save_thread / load_threads), and the publishing *)
(* loops of TwitterClient (post_thread / post_thread_with_media) driven by  *)
(* ThreadGenerator.post_thread.                                             *)
(*                                                                         *)
(* Python values are modelled with explicit tags so that conversions       *)
(* (str(), datetime.isoformat(), json.dump / json.load) are real maps:     *)
(*   - a platform id is [kind, digits]: an int or a str with its digits;   *)
(*   - an Optional[List[str]] is [some, val];                              *)
(*   - a JSON "array or null" is [j, items];                               *)
(*   - a datetime is [sec, us]; its ISO text is [sec, frac];               *)
(*   - a str of the research client is its sequence of pieces, and a value *)
(*     json.loads gives is [ty, v] (str, int, list, dict).                 *)
(*                                                                         *)
(* Spec is the program driven through ThreadGenerator; ResearchSpec is the *)
(* ResearchClient on its own, each method called with every response text  *)
(* of Responses; SaveRaceSpec is save_thread called by two processes on    *)
(* one path, interleaved at its file operations.                           *)
(***************************************************************************)
EXTENDS Integers, Sequences, FiniteSets, TLC

(* ------------------------------ bounds -------------------------------- *)
\* longest tweet list the AI backend returns in the model
MaxTweets == 2
\* len(text) > 280: the character limit of a tweet
TweetLimit == 280
\* most records the history file is allowed to grow to
MaxHistory == 2

(* --------------------------- value domains ---------------------------- *)
\* Python None where an id is expected (previous_tweet_id = None, a missing
\* in_reply_to_tweet_id keyword)
NoId == [kind |-> "none", digits |-> <<>>]

IntId(ds) == [kind |-> "int", digits |-> ds]

\* an id the platform assigns: it numbers the tweets of a run 100, 101, ...
\* (never 0, never empty); tweepy hands the id back as the JSON digit string,
\* a stub client as an int, so str(tweet_id) is not the identity. One run
\* talks to one client, so all its ids are of one kind.
IdKinds == {"str", "int"}

TweetId(i, kind) == [kind |-> kind, digits |-> <<1, 0, i - 1>>]

AllMedia == <<"a.png", "b.png", "c.png">>

\* media ids returned by media_upload (ints in tweepy's v1.1 Media model):
\* the platform gives every upload of a run an id of its own, 51, 52, ...
MediaId(i) == IntId(<<5, i>>)

MediaIds == {MediaId(i) : i \in 1..Len(AllMedia)}

\* what a failing platform call raises: a tweepy.TweepyException (subclass)
PlatformErrors == {"TweepyException"}

Topics == {"quantum computing"}

AllTweets == <<"Tweet 1 about quantum", "Tweet 2 #quantum", "Tweet 3", "Tweet 4">>

\* media_paths arguments: None/empty, one path, or two paths, so that a
\* list shorter than, as long as and longer than the tweet list is tried
MediaLists == {<<>>, SubSeq(AllMedia, 1, 1), SubSeq(AllMedia, 1, 2)}

PyNone == [some |-> FALSE, val |-> <<>>]

PySome(s) == [some |-> TRUE, val |-> s]

JNull == [j |-> "null", items |-> <<>>]

JArray(s) == [j |-> "array", items |-> s]

(* ---------------------------- Python helpers -------------------------- *)
\* bool(x) of an id-or-None value
Truthy(x) ==
    CASE x.kind = "none" -> FALSE
      [] x.kind = "int"  -> x.digits # <<0>>
      [] x.kind = "str"  -> x.digits # <<>>

\* str(x) of an id: the decimal text of an int, a str unchanged
str(x) == [kind |-> "str", digits |-> x.digits]

(* ------------------------------ Thread -------------------------------- *)
\* mutant of Thread: tweet_ids starts as an empty list
Thread_empty_ids(topic, tweets, research_data, now) ==
    [topic |-> topic, tweets |-> tweets, research_data |-> research_data,
     created_at |-> now, tweet_ids |-> PySome(<<>>)]

\* Thread.__init__: created_at is the wall clock, tweet_ids starts as None
Thread(topic, tweets, research_data, now) ==
    [topic |-> topic, tweets |-> tweets, research_data |-> research_data,
     created_at |-> now, tweet_ids |-> PyNone]

\* mutant of isoformat: isoformat(timespec="seconds")
isoformat_seconds(t) == [sec |-> t.sec, frac |-> <<>>]

\* datetime.isoformat(): the fraction is written only when microsecond # 0
isoformat(t) == [sec |-> t.sec, frac |-> IF t.us = 0 THEN <<>> ELSE <<t.us>>]

\* datetime.fromisoformat(): a missing fraction reads as microsecond 0
fromisoformat(s) == [sec |-> s.sec, us |-> IF s.frac = <<>> THEN 0 ELSE s.frac[1]]

\* Thread.to_dict
to_dict(thread) ==
    [topic |-> thread.topic, tweets |-> thread.tweets,
     research_data |-> thread.research_data,
     created_at |-> isoformat(thread.created_at),
     tweet_ids |-> thread.tweet_ids]

\* Thread.from_dict: the constructor runs first (created_at = now, tweet_ids =
\* None), then created_at and tweet_ids are overwritten from the dict
from_dict(data, now) ==
    [Thread(data.topic, data.tweets, data.research_data, now)
        EXCEPT !.created_at = fromisoformat(data.created_at),
               !.tweet_ids = data.tweet_ids]

(* ----------------------------- JSON file ------------------------------ *)
\* json.dump of one thread dict: None is written as null, a list as an array
json_dump_record(d) ==
    [d EXCEPT !.tweet_ids = IF d.tweet_ids.some THEN JArray(d.tweet_ids.val) ELSE JNull]

\* json.load of one record: null is read as None, an array as a list
json_load_record(r) ==
    [r EXCEPT !.tweet_ids = IF r.tweet_ids.j = "null" THEN PyNone ELSE PySome(r.tweet_ids.items)]

json_dump(threads) == [k \in 1..Len(threads) |-> json_dump_record(threads[k])]

json_load(text) == [k \in 1..Len(text) |-> json_load_record(text[k])]

\* the history file: missing, unparseable, or a JSON array of records
AbsentFile == [state |-> "absent", text |-> <<>>]

CorruptFile == [state |-> "corrupt", text |-> <<>>]

JsonFile(text) == [state |-> "json", text |-> text]

\* save_thread's inner try: FileNotFoundError / JSONDecodeError give []
read_history(f) == IF f.state = "json" THEN json_load(f.text) ELSE <<>>

\* mutant of add_new_thread: the new record is put in front
add_new_thread_front(threads, d) == <<d>> \o threads

\* mutant of add_new_thread: a record with the same topic and created_at is
\* overwritten in place
add_new_thread_upsert(threads, d) ==
    IF \E k \in 1..Len(threads) :
            threads[k].topic = d.topic /\ threads[k].created_at = d.created_at
    THEN [k \in 1..Len(threads) |->
            IF threads[k].topic = d.topic /\ threads[k].created_at = d.created_at
            THEN d ELSE threads[k]]
    ELSE Append(threads, d)

\* save_thread: "threads.append(thread.to_dict())"
add_new_thread(threads, d) == Append(threads, d)

\* the list save_thread writes back for thread object t over file f
saved_history(f, t) == add_new_thread(read_history(f), to_dict(t))

\* what "with open(filepath, 'r') as f: json.load(f)" raises on file f
read_error(f) ==
    CASE f.state = "absent"  -> "FileNotFoundError"
      [] f.state = "corrupt" -> "JSONDecodeError"
      [] f.state = "json"    -> ""

\* mutant of load_tolerated: only a missing file is tolerated
load_tolerated_missing == {"FileNotFoundError"}

\* load_threads: "except (FileNotFoundError, json.JSONDecodeError): return []"
load_tolerated == {"FileNotFoundError", "JSONDecodeError"}

\* load_threads: the exception that leaves the call, "" when it returns;
\* "except Exception as e: raise ThreadStorageError(...)" takes what the
\* first handler does not
load_threads_raised(f) ==
    IF read_error(f) = "" \/ read_error(f) \in load_tolerated
    THEN ""
    ELSE "ThreadStorageError"

\* load_threads: [Thread.from_dict(data) for data in threads_data], or [] when
\* the file is missing or does not parse
load_threads_result(f, now) ==
    IF f.state = "json"
    THEN [k \in 1..Len(f.text) |-> from_dict(json_load(f.text)[k], now)]
    ELSE <<>>

(* ------------------- ResearchClient: response text -------------------- *)
\* A Python str of the research client is a sequence of pieces, each a run of
\* characters no string method of the code cuts through: a whitespace
\* character, the three-backtick marker, a word, a JSON punctuation character,
\* a double quote, a number.
Whitespace == {" ", "\n"}

\* the marker of a code block, three backtick characters
Fence == "<3 backticks>"

\* str.strip(): leading and trailing whitespace is dropped
RECURSIVE lstrip(_)
lstrip(text) ==
    IF text # <<>> /\ Head(text) \in Whitespace THEN lstrip(Tail(text)) ELSE text

RECURSIVE rstrip(_)
rstrip(text) ==
    IF text # <<>> /\ text[Len(text)] \in Whitespace
    THEN rstrip(SubSeq(text, 1, Len(text) - 1))
    ELSE text

strip(text) == rstrip(lstrip(text))

\* str.startswith / str.endswith for a prefix or suffix that is one piece
startswith(text, piece) == text # <<>> /\ Head(text) = piece

endswith(text, piece) == text # <<>> /\ text[Len(text)] = piece

\* text.split("\n"): the list of lines, one line for a text without "\n"
RECURSIVE split(_)
split(text) ==
    IF \A k \in 1..Len(text) : text[k] # "\n"
    THEN <<text>>
    ELSE LET k == CHOOSE k \in 1..Len(text) :
                      text[k] = "\n" /\ \A j \in 1..(k - 1) : text[j] # "\n"
         IN  <<SubSeq(text, 1, k - 1)>> \o split(SubSeq(text, k + 1, Len(text)))

\* "\n".join(lines)
RECURSIVE join(_)
join(lines) ==
    CASE Len(lines) = 0 -> <<>>
      [] Len(lines) = 1 -> lines[1]
      [] OTHER -> lines[1] \o <<"\n">> \o join(Tail(lines))

\* "if text.startswith(FENCE) and text.endswith(FENCE)", FENCE three backticks
has_code_block_markers(text) == startswith(text, Fence) /\ endswith(text, Fence)

\* if text.startswith("json") or text.startswith("JSON"): the first line of
\* text is dropped
strip_language(text) ==
    IF startswith(text, "json") \/ startswith(text, "JSON")
    THEN join(Tail(split(text)))
    ELSE text

\* mutant of strip_markers: only the closing marker line is removed
strip_markers_last_only(lines) == join(SubSeq(lines, 1, Len(lines) - 1))

\* text = "\n".join(lines[1:-1])
strip_markers(lines) == join(SubSeq(lines, 2, Len(lines) - 1))

\* "Remove code block markers if present": the text handed to json.loads by
\* research_with_search and generate_thread, from text = response.text.strip()
remove_code_block(text) ==
    IF has_code_block_markers(text) /\ Len(split(text)) > 2
    THEN strip_language(strip_markers(split(text)))
    ELSE text

(* ----------------------- ResearchClient: json.loads ------------------- *)
\* Python values the research client handles, tagged with their type; the
\* content of a str is its sequence of pieces, a dict maps key content to value
PyStr(s) == [ty |-> "str", v |-> s]

PyInt(s) == [ty |-> "int", v |-> s]

PyList(items) == [ty |-> "list", v |-> items]

PyDict(d) == [ty |-> "dict", v |-> d]

Quote == "\""

\* number literals of the response texts
Numbers == {"42"}

\* the outcome of parsing one JSON value: the value and the position after it
Good(val, next) == [ok |-> TRUE, val |-> val, next |-> next]

Bad == [ok |-> FALSE, val |-> <<>>, next |-> 0]

\* the JSON scanner skips whitespace between tokens
RECURSIVE skip_ws(_, _)
skip_ws(t, p) == IF p <= Len(t) /\ t[p] \in Whitespace THEN skip_ws(t, p + 1) ELSE p

\* a string literal opening at position p: its content runs to the next
\* quote; a raw newline inside it is an invalid control character
parse_string(t, p) ==
    IF \E q \in (p + 1)..Len(t) : t[q] = Quote
    THEN LET q == CHOOSE q \in (p + 1)..Len(t) :
                      t[q] = Quote /\ \A j \in (p + 1)..(q - 1) : t[j] # Quote
         IN  IF \E j \in (p + 1)..(q - 1) : t[j] = "\n"
             THEN Bad
             ELSE Good(PyStr(SubSeq(t, p + 1, q - 1)), q + 1)
    ELSE Bad

RECURSIVE parse_value(_, _), parse_elements(_, _, _), parse_members(_, _, _)
\* one JSON value starting at or after position p
parse_value(t, p) ==
    LET q == skip_ws(t, p)
    IN  CASE q > Len(t) -> Bad
          [] q <= Len(t) /\ t[q] = Quote -> parse_string(t, q)
          [] q <= Len(t) /\ t[q] \in Numbers -> Good(PyInt(<<t[q]>>), q + 1)
          [] q <= Len(t) /\ t[q] = "[" ->
                IF skip_ws(t, q + 1) <= Len(t) /\ t[skip_ws(t, q + 1)] = "]"
                THEN Good(PyList(<<>>), skip_ws(t, q + 1) + 1)
                ELSE parse_elements(t, q + 1, <<>>)
          [] q <= Len(t) /\ t[q] = "{" ->
                IF skip_ws(t, q + 1) <= Len(t) /\ t[skip_ws(t, q + 1)] = "}"
                THEN Good(PyDict(<<>>), skip_ws(t, q + 1) + 1)
                ELSE parse_members(t, q + 1, <<>>)
          [] OTHER -> Bad

\* the elements of an array after "[" or ",", acc the elements read so far
parse_elements(t, p, acc) ==
    LET r == parse_value(t, p)
        q == skip_ws(t, r.next)
    IN  CASE ~r.ok \/ q > Len(t) -> Bad
          [] r.ok /\ q <= Len(t) /\ t[q] = "," ->
                parse_elements(t, q + 1, Append(acc, r.val))
          [] r.ok /\ q <= Len(t) /\ t[q] = "]" ->
                Good(PyList(Append(acc, r.val)), q + 1)
          [] OTHER -> Bad

\* the members of an object after "{" or ",", acc the dict built so far; a
\* repeated key keeps the later value
parse_members(t, p, acc) ==
    LET k == skip_ws(t, p)
        key == IF k <= Len(t) /\ t[k] = Quote THEN parse_string(t, k) ELSE Bad
        c == skip_ws(t, key.next)
        r == IF key.ok /\ c <= Len(t) /\ t[c] = ":" THEN parse_value(t, c + 1) ELSE Bad
        q == skip_ws(t, r.next)
        d == (key.val.v :> r.val) @@ acc
    IN  CASE ~r.ok \/ q > Len(t) -> Bad
          [] r.ok /\ q <= Len(t) /\ t[q] = "," -> parse_members(t, q + 1, d)
          [] r.ok /\ q <= Len(t) /\ t[q] = "}" -> Good(PyDict(d), q + 1)
          [] OTHER -> Bad

\* json.loads(text): the value, or JSONDecodeError when the text is not one
\* JSON value with at most whitespace around it
json_loads(text) ==
    LET r == parse_value(text, 1)
    IN  IF r.ok /\ skip_ws(text, r.next) > Len(text)
        THEN [ok |-> TRUE, val |-> r.val]
        ELSE [ok |-> FALSE, val |-> <<>>]

(* ----------------------- ResearchClient: json.dumps ------------------- *)
\* the keys of the dicts of the model in the order they were inserted: a dict
\* is written in insertion order
DictKeys == <<<<"analysis">>, <<"key_findings">>, <<"citations">>, <<"error">>, <<"details">>>>

key_order(d) == SelectSeq(DictKeys, LAMBDA k : k \in DOMAIN d)

\* a quote or a newline inside a string is written as an escape sequence
escape(s) ==
    [k \in 1..Len(s) |-> IF s[k] = Quote THEN "\\\"" ELSE IF s[k] = "\n" THEN "\\n" ELSE s[k]]

RECURSIVE json_dumps(_), dumps_items(_), dumps_members(_, _)
\* json.dumps(value) with the default separators ", " and ": "
json_dumps(value) ==
    CASE value.ty = "str" -> <<Quote>> \o escape(value.v) \o <<Quote>>
      [] value.ty = "int" -> value.v
      [] value.ty = "list" -> <<"[">> \o dumps_items(value.v) \o <<"]">>
      [] value.ty = "dict" -> <<"{">> \o dumps_members(value.v, key_order(value.v)) \o <<"}">>

dumps_items(items) ==
    IF items = <<>> THEN <<>>
    ELSE json_dumps(items[1])
         \o (IF Len(items) > 1 THEN <<",", " ">> \o dumps_items(Tail(items)) ELSE <<>>)

dumps_members(d, keys) ==
    IF keys = <<>> THEN <<>>
    ELSE <<Quote>> \o escape(keys[1]) \o <<Quote, ":", " ">> \o json_dumps(d[keys[1]])
         \o (IF Len(keys) > 1 THEN <<",", " ">> \o dumps_members(d, Tail(keys)) ELSE <<>>)

(* ---------------------- ResearchClient: operations -------------------- *)
\* what one self.model.generate_content(...) call does: it raises an
\* exception with a message, or returns a response with the given text
BackendRaises(message) == [raised |-> TRUE, message |-> message, text |-> <<>>]

BackendReturns(text) == [raised |-> FALSE, message |-> "", text |-> text]

\* how a call of the research client ends: it returns a value or raises an
\* exception; loads tells whether json.loads was called on the way
Returned(value, loads) == [kind |-> "returned", value |-> value, loads |-> loads]

Raised(type, message, loads) ==
    [kind |-> "raised", value |-> [ty |-> type, v |-> message], loads |-> loads]

\* the dict {"error": error, "details": details}
error_record(error, details) ==
    PyDict((<<"error">> :> PyStr(<<error>>)) @@ (<<"details">> :> PyStr(details)))

\* mutant of no_text: "if response.text is None"
no_text_is_none(text) == FALSE

\* "if not response.text": the empty str is falsy
no_text(text) == text = <<>>

\* mutant of research_failed: the exception is raised again
research_failed_reraise(message, loads) == Raised("Exception", <<message>>, loads)

\* "except Exception as e: return {"error": "Research failed",
\* "details": str(e)}"
research_failed(message, loads) ==
    Returned(error_record("Research failed", <<message>>), loads)

\* {"error": "No response generated", "details": "The model did not ..."}
no_response ==
    error_record("No response generated", <<"The model did not return any content">>)

\* research_with_search, from the backend call on: the response text is
\* stripped, code block markers are removed, the rest is parsed; whatever
\* json.loads gives is returned as it is
research_with_search(b) ==
    IF b.raised THEN research_failed(b.message, FALSE)
    ELSE IF no_text(b.text) THEN Returned(no_response, FALSE)
    ELSE LET text == remove_code_block(strip(b.text))
             parsed == json_loads(strip(text))
         IN  IF parsed.ok
             THEN Returned(parsed.val, TRUE)
             ELSE Returned(error_record("Invalid JSON response", text), TRUE)

\* the prompt of research_with_search: the instructions with the query put in
research_prompt(query) ==
    [instructions |-> "Research the following topic using search results: ",
     embedded |-> <<query>>]

\* mutant of thread_prompt: the template is sent as it is, never formatted
thread_prompt_unformatted(research_data) ==
    [instructions |-> "Convert this research into an engaging Twitter thread.",
     embedded |-> <<"{research_json}">>]

\* the prompt of generate_thread: the instructions with json.dumps(research_data)
\* put in after "Research data:"
thread_prompt(research_data) ==
    [instructions |-> "Convert this research into an engaging Twitter thread.",
     embedded |-> json_dumps(research_data)]

\* research_without_search, from the backend call on: response.text is parsed
\* as it came
research_without_search(b) ==
    IF b.raised THEN research_failed(b.message, FALSE)
    ELSE IF no_text(b.text) THEN Returned(no_response, FALSE)
    ELSE LET parsed == json_loads(b.text)
         IN  IF parsed.ok
             THEN Returned(parsed.val, TRUE)
             ELSE Returned(error_record("Invalid JSON response", b.text), TRUE)

\* mutant of is_tweet_list: "isinstance(tweets, list)"
is_tweet_list_any_list(value) == value.ty = "list"

\* "isinstance(tweets, list) and tweets"
is_tweet_list(value) == value.ty = "list" /\ value.v # <<>>

\* "except Exception as e: raise ResearchError(f"Failed to generate thread:
\* {str(e)}")", which also takes the ResearchError raised inside the try
generation_failed(message, loads) ==
    Raised("ResearchError", <<"Failed to generate thread: ">> \o message, loads)

\* generate_thread, from the backend call on
generate_thread(b) ==
    IF b.raised THEN generation_failed(<<b.message>>, FALSE)
    ELSE IF no_text(b.text) THEN generation_failed(<<"No response generated">>, FALSE)
    ELSE LET text == remove_code_block(strip(b.text))
             parsed == json_loads(strip(text))
         IN  CASE ~parsed.ok ->
                    generation_failed(<<"Failed to parse tweets: ">> \o text, TRUE)
               [] parsed.ok /\ is_tweet_list(parsed.val) -> Returned(parsed.val, TRUE)
               [] OTHER -> generation_failed(<<"Invalid tweet list format">>, TRUE)

(* ---------------------- ResearchClient: responses --------------------- *)
\* the pieces of a JSON string literal with content s
Str(s) == <<Quote, s, Quote>>

\* {"analysis": "...", "key_findings": ["a", "b"]
ResearchJsonHead ==
    <<"{">> \o Str("analysis") \o <<":", " ">> \o Str("...") \o <<",", " ">>
    \o Str("key_findings") \o <<":", " ", "[">> \o Str("a") \o <<",", " ">>
    \o Str("b") \o <<"]">>

\* the research record the prompt of research_with_search asks for
ResearchJson ==
    ResearchJsonHead \o <<",", " ">> \o Str("citations") \o <<":", " ", "[">>
    \o Str("c1") \o <<"]", "}">>

\* the research record the prompt of research_without_search asks for
NoCitationsJson == ResearchJsonHead \o <<"}">>

\* an object with one of the fields only
PartialJson == <<"{">> \o Str("analysis") \o <<":", " ">> \o Str("...") \o <<"}">>

\* a tweet list, written over several lines
TweetsJson ==
    <<"[", "\n", " ">> \o Str("Tweet 1 about quantum") \o <<",", "\n", " ">>
    \o Str("Tweet 2 #quantum") \o <<"\n", "]">>

EmptyArrayJson == <<"[", "]">>

ScalarJson == <<"42">>

\* texts that are JSON
JsonTexts ==
    {ResearchJson, NoCitationsJson, PartialJson, TweetsJson, EmptyArrayJson, ScalarJson}

\* texts that are not JSON: prose, and an array that is cut off
OtherTexts == {<<"not", " ", "json">>, <<"[">> \o Str("Tweet 1 about quantum") \o <<",">>}

\* the ways the model dresses a text up in its response
Wrappers ==
    {"plain", "padded", "block", "block json", "block JSON", "block padded",
     "block json line", "inline", "open block"}

wrap(w, text) ==
    CASE w = "plain"   -> text
      [] w = "padded"  -> <<" ", "\n">> \o text \o <<"\n">>
      [] w = "block"   -> <<Fence, "\n">> \o text \o <<"\n", Fence>>
      [] w = "block json" -> <<Fence, "json", "\n">> \o text \o <<"\n", Fence>>
      [] w = "block JSON" -> <<Fence, "JSON", "\n">> \o text \o <<"\n", Fence>>
      [] w = "block padded" ->
            <<"\n", Fence, "json", "\n">> \o text \o <<"\n", Fence, "\n">>
      [] w = "block json line" ->
            <<Fence, "\n", "json", "\n">> \o text \o <<"\n", Fence>>
      [] w = "inline"  -> <<Fence>> \o text \o <<Fence>>
      [] w = "open block" -> <<Fence, "json", "\n">> \o text

\* response texts of the model: every text in every dress, the empty text
\* and a text of whitespace only
Responses ==
    {wrap(w, text) : w \in Wrappers, text \in JsonTexts \cup OtherTexts}
    \cup {<<>>, <<" ">>}

\* exceptions of the backend call (network, auth, quota), by message
BackendMessages == {"429 quota exceeded"}

BackendOutcomes ==
    {BackendReturns(text) : text \in Responses}
    \cup {BackendRaises(message) : message \in BackendMessages}

(* ---------------- inputs of research_and_generate ---------------------- *)
\* the pieces of a JSON string literal whose content is the pieces s
StrOf(s) == <<Quote>> \o s \o <<Quote>>

\* the JSON array text of a non-empty list of strings
RECURSIVE elements(_)
elements(items) ==
    IF Len(items) = 1
    THEN StrOf(items[1])
    ELSE StrOf(items[1]) \o <<",", " ">> \o elements(Tail(items))

ArrayJson(items) == <<"[">> \o elements(items) \o <<"]">>

\* a tweet text one character over the limit: pieces of ten characters up
\* to the limit, and one character more
LongTweet == [k \in 1..(TweetLimit \div 10) |-> "0123456789"] \o <<"x">>

\* a list of n tweet texts as the model writes them: the prompt asks for
\* tweets under the limit and nothing holds the model to it, so the
\* one-tweet list has a tweet over the limit
FirstTweets(n) == IF n = 1 THEN <<LongTweet>> ELSE [k \in 1..n |-> <<AllTweets[k]>>]

\* dicts research_with_search returns: the parsed record, or an error pair
ResearchRecord == research_with_search(BackendReturns(ResearchJson)).value

ResearchFailure == research_with_search(BackendReturns(<<"not", " ", "json">>)).value

\* what the two backend calls and the wall clock give one
\* research_and_generate call: the response to the research prompt, the
\* response to the thread prompt and datetime.now() (whole seconds, or with a
\* microsecond part). Thread carries the results as opaque payloads, so one
\* combination per list length is drawn.
Generated ==
    { [research |-> BackendReturns(IF n = 1 THEN <<"not", " ", "json">> ELSE ResearchJson),
       compose |-> BackendReturns(ArrayJson(FirstTweets(n))),
       now |-> [sec |-> n, us |-> IF n % 2 = 0 THEN 250000 ELSE 0]]
      : n \in 1..MaxTweets }

\* backend behaviour that makes generate_thread raise: an empty array, an
\* exception of the backend call
NotGenerated ==
    { [research |-> BackendReturns(ResearchJson), compose |-> BackendReturns(EmptyArrayJson)],
      [research |-> BackendRaises("429 quota exceeded"),
       compose |-> BackendRaises("429 quota exceeded")] }

\* values datetime.now() gives the constructor inside Thread.from_dict
Times == {g.now : g \in Generated}

(* ------------------------------- state -------------------------------- *)
VARIABLES
    thread,     \* the Thread object the caller holds: <<>> (none) or <<t>>
    file,       \* the history file at the store path
    run,        \* the frame of the publish call or research_and_generate call
                \* in progress (pc = "idle": none)
    calls,      \* the platform calls of the current or latest publish run
    result,     \* how the latest ThreadGenerator.post_thread call ended
    last,       \* the latest core operation, the exception it raised, if any,
                \* for research_and_generate and the research_with_search
                \* call it starts with the calls made to the AI backend,
                \* for post_thread the media_paths argument,
                \* for save_thread the file and its records before the call,
                \* for load_threads the file before the call and the list
                \* returned
    postedObj,  \* a publish run completed successfully for the held Thread
    postedRec,  \* per file record: saved from a Thread with postedObj set
    research,   \* the latest call made to a ResearchClient method on its own
    savers      \* per concurrent caller of save_thread: the frame of its call
                \* (ResearchSpec): the method, what the backend did and how
                \* the call ended

vars == <<thread, file, run, calls, result, last, postedObj, postedRec, research, savers>>

IdleRun ==
    [pc |-> "idle", id_kind |-> "", before |-> <<>>, tweets |-> <<>>,
     media_paths |-> <<>>, with_media |-> FALSE, i |-> 0, tweet_ids |-> <<>>,
     previous_tweet_id |-> NoId, media_ids |-> <<>>,
     topic |-> "", research_data |-> PyNone]

\* result.before is the held Thread as it was when the call was entered
NoResult ==
    [kind |-> "none", tweet_ids |-> <<>>, before |-> <<>>,
     exc |-> [type |-> "", message |-> <<>>]]

NoOp == [op |-> "none", raised |-> "", stored |-> <<>>, before |-> PyNone,
         returned |-> PyNone, media_paths |-> <<>>, backend |-> <<>>]

Op(op, raised) == [NoOp EXCEPT !.op = op, !.raised = raised]

\* the record of a load_threads call on file f at wall-clock time now
LoadOp(f, now) ==
    [Op("load_threads", load_threads_raised(f))
        EXCEPT !.before = PySome(f),
               !.returned = IF load_threads_raised(f) = ""
                            THEN PySome(load_threads_result(f, now))
                            ELSE PyNone]

\* the records the file holds, none when it is missing or does not parse
stored_records(f) == IF f.state = "json" THEN f.text ELSE <<>>

\* the record of a save_thread call on file f that raised what is given
SaveOp(f, raised) ==
    [Op("save_thread", raised) EXCEPT !.stored = stored_records(f), !.before = PySome(f)]

\* no ResearchClient method has been called yet
NoResearch ==
    [op |-> "none", backend |-> BackendReturns(<<>>), outcome |-> Returned(PyList(<<>>), FALSE)]

\* processes that call save_thread on the same path at the same time
Callers == {1, 2}

\* no save_thread call in progress. The fields after pc are the locals of the
\* call (thread, threads) and the history as the call read it (read); missed,
\* clobbered and latest record what other callers did to the file since: the
\* saves they completed, whether one of them wrote while this call had the
\* file open, and whether this call was the last to write.
IdleSaver ==
    [pc |-> "idle", thread |-> <<>>, threads |-> <<>>, read |-> <<>>, missed |-> <<>>,
     clobbered |-> FALSE, latest |-> FALSE]

Init ==
    /\ research = NoResearch
    /\ savers = [c \in Callers |-> IdleSaver]
    /\ thread = <<>>
    /\ file = AbsentFile
    /\ run = IdleRun
    /\ calls = <<>>
    /\ result = NoResult
    /\ last = NoOp
    /\ postedObj = FALSE
    /\ postedRec = <<>>

(* ----------------------- TwitterClient: the loop ---------------------- *)
\* mutant of in_reply_to: the reply link is never passed
in_reply_to_never(previous_tweet_id) == NoId

\* "if previous_tweet_id:" chooses between create_tweet with and without
\* in_reply_to_tweet_id; the value the call carries
in_reply_to(previous_tweet_id) ==
    IF Truthy(previous_tweet_id) THEN previous_tweet_id ELSE NoId

\* "media_ids=media_ids if media_ids else None"; post_thread passes none
media_arg(media_ids) == IF media_ids # <<>> THEN PySome(media_ids) ELSE PyNone

\* mutant of iteration_media_ids: the list is made once, before the loop
iteration_media_ids_kept(media_ids) == media_ids

\* "media_ids = []" at the top of every iteration of post_thread_with_media
iteration_media_ids(media_ids) == <<>>

\* mutant of append_id: the new id is put in front
append_id_front(tweet_ids, tweet_id) == <<str(tweet_id)>> \o tweet_ids

\* "tweet_ids.append(str(tweet_id))"
append_id(tweet_ids, tweet_id) == Append(tweet_ids, str(tweet_id))

\* "previous_tweet_id = tweet_id"
next_previous(tweet_id) == tweet_id

\* "if media_paths and i < len(media_paths)" (i is 1-based here)
needs_upload(r) ==
    r.with_media /\ r.media_paths # <<>> /\ r.i <= Len(r.media_paths)

\* mutant of abort: the failed step is tried again
abort_retry(r) == [r EXCEPT !.pc = "loop", !.media_ids = <<>>]

\* the frame after an exception left the loop: both methods end at once,
\* nothing is retried and no later index is tried
abort(r) == IdleRun

\* "except tweepy.TweepyException as e: raise TwitterAPIError(...)": the new
\* exception carries the message text only; any other exception leaves the
\* method as it is
raised_exception(r, err) ==
    IF err = "TweepyException"
    THEN [type |-> "TwitterAPIError",
          message |-> <<IF r.with_media THEN "Failed to post thread with media: "
                                        ELSE "Failed to post thread: ", err>>]
    ELSE [type |-> err, message |-> <<err>>]

\* the log entry of one platform call
Call(api, i, text, reply, media, response, raised) ==
    [api |-> api, i |-> i, text |-> text, in_reply_to_tweet_id |-> reply,
     media_ids |-> media, response |-> response, raised |-> raised]

(* ------------------- ThreadGenerator.post_thread ---------------------- *)
\* mutant of thread_after_raise: the ids gathered so far are stored
thread_after_raise_partial(t, tweet_ids) == [t EXCEPT !.tweet_ids = PySome(tweet_ids)]

\* the Thread object after the client call raised: the exception passes
\* through post_thread before "thread.tweet_ids = tweet_ids" is reached
thread_after_raise(t, tweet_ids) == t

\* mutant of thread_after_return: a new Thread is built around the ids
thread_after_return_rebuilt(t, tweet_ids) ==
    [Thread(t.topic, t.tweets, t.research_data, [sec |-> 0, us |-> 0])
        EXCEPT !.tweet_ids = PySome(tweet_ids)]

\* the Thread object after the client call returned tweet_ids
thread_after_return(t, tweet_ids) == [t EXCEPT !.tweet_ids = PySome(tweet_ids)]

\* post_thread(thread, media_paths) is entered: "if media_paths:" picks
\* post_thread_with_media, else post_thread; both start with no ids.
\* id_kind is the kind of id the platform client of this run hands back.
PostThread(media_paths, id_kind) ==
    /\ run.pc = "idle"
    /\ thread # <<>>
    /\ run' = [pc |-> "loop", id_kind |-> id_kind, before |-> thread,
               tweets |-> thread[1].tweets, media_paths |-> media_paths,
               with_media |-> (media_paths # <<>>), i |-> 1, tweet_ids |-> <<>>,
               previous_tweet_id |-> NoId, media_ids |-> <<>>,
               topic |-> "", research_data |-> PyNone]
    /\ calls' = <<>>
    /\ result' = NoResult
    /\ last' = [Op("post_thread", "") EXCEPT !.media_paths = media_paths]
    /\ UNCHANGED <<research, savers, thread, file, postedObj, postedRec>>

\* the exception leaves post_thread: the Thread keeps what it had
Raise(err) ==
    /\ thread' = <<thread_after_raise(thread[1], run.tweet_ids)>>
    /\ result' = [kind |-> "raised", tweet_ids |-> <<>>, before |-> run.before,
                  exc |-> raised_exception(run, err)]
    /\ last' = [last EXCEPT !.raised = raised_exception(run, err).type]
    /\ run' = abort(run)

\* self.api.media_upload(filename=media_paths[i]) returns a media id
MediaUploadOk(mid) ==
    /\ run.pc = "loop" /\ run.i <= Len(run.tweets) /\ needs_upload(run)
    /\ mid = MediaId(run.i)
    /\ calls' = Append(calls, Call("media_upload", run.i, run.media_paths[run.i],
                                   NoId, PyNone, mid, ""))
    /\ run' = [run EXCEPT !.pc = "create", !.media_ids = Append(run.media_ids, mid)]
    /\ UNCHANGED <<research, savers, thread, file, result, last, postedObj, postedRec>>

\* self.api.media_upload raises
MediaUploadFail(err) ==
    /\ run.pc = "loop" /\ run.i <= Len(run.tweets) /\ needs_upload(run)
    /\ calls' = Append(calls, Call("media_upload", run.i, run.media_paths[run.i],
                                   NoId, PyNone, NoId, err))
    /\ Raise(err)
    /\ UNCHANGED <<research, savers, file, postedObj, postedRec>>

\* the loop is about to call create_tweet for index run.i
at_create ==
    \/ run.pc = "create"
    \/ run.pc = "loop" /\ run.i <= Len(run.tweets) /\ ~needs_upload(run)

\* self.client.create_tweet(...) returns response.data['id'] = tweet_id
CreateTweetOk(tweet_id) ==
    /\ at_create
    /\ tweet_id = TweetId(run.i, run.id_kind)
    /\ calls' = Append(calls, Call("create_tweet", run.i, run.tweets[run.i],
                                   in_reply_to(run.previous_tweet_id),
                                   media_arg(run.media_ids), tweet_id, ""))
    /\ run' = [run EXCEPT !.pc = "loop", !.i = run.i + 1,
                          !.media_ids = iteration_media_ids(run.media_ids),
                          !.tweet_ids = append_id(run.tweet_ids, tweet_id),
                          !.previous_tweet_id = next_previous(tweet_id)]
    /\ UNCHANGED <<research, savers, thread, file, result, last, postedObj, postedRec>>

\* self.client.create_tweet(...) raises
CreateTweetFail(err) ==
    /\ at_create
    /\ calls' = Append(calls, Call("create_tweet", run.i, run.tweets[run.i],
                                   in_reply_to(run.previous_tweet_id),
                                   media_arg(run.media_ids), NoId, err))
    /\ Raise(err)
    /\ UNCHANGED <<research, savers, file, postedObj, postedRec>>

\* the for loop is exhausted: "return tweet_ids", then in
\* ThreadGenerator.post_thread "thread.tweet_ids = tweet_ids; return thread"
PostReturn ==
    /\ run.pc = "loop" /\ run.i > Len(run.tweets)
    /\ thread' = <<thread_after_return(thread[1], run.tweet_ids)>>
    /\ postedObj' = TRUE
    /\ result' = [kind |-> "returned", tweet_ids |-> run.tweet_ids, before |-> run.before,
                  exc |-> NoResult.exc]
    /\ run' = IdleRun
    /\ UNCHANGED <<research, savers, file, calls, last, postedRec>>

(* ------------------ ThreadGenerator.research_and_generate ------------- *)
\* the log entry of one generate_content call: the method that made it, the
\* prompt sent, what the backend did and how the method ended
BackendCall(method, prompt, response, outcome) ==
    [method |-> method, prompt |-> prompt, response |-> response, outcome |-> outcome]

\* the dict has the shape of the error pairs of research_with_search
is_error_record(value) == value.ty = "dict" /\ <<"error">> \in DOMAIN value.v

\* mutant of after_research: an error pair ends research_and_generate
after_research_stop_on_error(research_data) ==
    IF is_error_record(research_data) THEN "idle" ELSE "compose"

\* where research_and_generate goes after research_with_search returned:
\* nothing looks at research_data, generate_thread is called next
after_research(research_data) == "compose"

\* research_and_generate(topic) is entered and calls
\* research_data = self.research.research_with_search(topic), which always
\* returns (a record or an error pair); research_b is what the backend does
ResearchStep(topic, research_b) ==
    /\ run.pc = "idle"
    /\ LET research_data == research_with_search(research_b)
       IN  /\ run' = [IdleRun EXCEPT !.pc = after_research(research_data.value),
                                     !.topic = topic,
                                     !.research_data = PySome(research_data.value)]
           /\ last' = [Op("research_with_search", "")
                          EXCEPT !.backend = <<BackendCall("research_with_search",
                                                           research_prompt(topic),
                                                           research_b, research_data)>>]
    /\ calls' = <<>>
    /\ result' = NoResult
    /\ UNCHANGED <<research, savers, thread, file, postedObj, postedRec>>

\* tweets = self.research.generate_thread(research_data) returned a list: the
\* new Thread is built from the topic, the list and research_data at the
\* current wall-clock time, and the caller's variable now names the new
\* object. compose_b is what the backend does on this call; research_b is
\* what it did on the research call, so that the inputs of one call are drawn
\* together.
ResearchAndGenerate(research_b, compose_b, now) ==
    /\ run.pc = "compose"
    /\ last.backend[1].response = research_b
    /\ LET research_data == run.research_data.val
           tweets == generate_thread(compose_b)
       IN  /\ tweets.kind = "returned"
           /\ thread' = <<Thread(run.topic, tweets.value.v, research_data, now)>>
           /\ last' = [Op("research_and_generate", "")
                          EXCEPT !.backend =
                              Append(last.backend,
                                     BackendCall("generate_thread",
                                                 thread_prompt(research_data),
                                                 compose_b, tweets))]
    /\ postedObj' = FALSE
    /\ run' = IdleRun
    /\ UNCHANGED <<research, savers, file, calls, result, postedRec>>

\* generate_thread raised ResearchError (empty response, unparseable text, a
\* value that is not a non-empty list, a backend exception): the exception
\* leaves research_and_generate and no Thread is constructed
ResearchAndGenerateFail(research_b, compose_b) ==
    /\ run.pc = "compose"
    /\ last.backend[1].response = research_b
    /\ LET research_data == run.research_data.val
           tweets == generate_thread(compose_b)
       IN  /\ tweets.kind = "raised"
           /\ last' = [Op("research_and_generate", tweets.value.ty)
                          EXCEPT !.backend =
                              Append(last.backend,
                                     BackendCall("generate_thread",
                                                 thread_prompt(research_data),
                                                 compose_b, tweets))]
    /\ run' = IdleRun
    /\ UNCHANGED <<research, savers, thread, file, calls, result, postedObj, postedRec>>

(* --------------------- ThreadGenerator.save_thread -------------------- *)
\* the history is read, the thread's dict appended, and the whole list
\* written back with open(filepath, 'w') + json.dump
SaveThread ==
    /\ run.pc = "idle"
    /\ thread # <<>>
    /\ Len(read_history(file)) < MaxHistory
    /\ file' = JsonFile(json_dump(saved_history(file, thread[1])))
    /\ postedRec' = Append(IF file.state = "json" THEN postedRec ELSE <<>>, postedObj)
    /\ last' = SaveOp(file, "")
    /\ calls' = <<>>
    /\ result' = NoResult
    /\ UNCHANGED <<research, savers, thread, run, postedObj>>

\* open(filepath, 'w') raises (missing directory, no permission): the file is
\* not touched and the error is re-raised as ThreadStorageError
SaveThreadOpenFails ==
    /\ run.pc = "idle"
    /\ thread # <<>>
    /\ last' = SaveOp(file, "ThreadStorageError")
    /\ calls' = <<>>
    /\ result' = NoResult
    /\ UNCHANGED <<research, savers, thread, file, run, postedObj, postedRec>>

\* json.dump raises after open(filepath, 'w') truncated the file (disk full):
\* what is left does not parse; re-raised as ThreadStorageError
SaveThreadWriteFails ==
    /\ run.pc = "idle"
    /\ thread # <<>>
    /\ file' = CorruptFile
    /\ postedRec' = <<>>
    /\ last' = SaveOp(file, "ThreadStorageError")
    /\ calls' = <<>>
    /\ result' = NoResult
    /\ UNCHANGED <<research, savers, thread, run, postedObj>>

(* --------------------- ThreadGenerator.load_threads ------------------- *)
\* every record becomes a fresh Thread object; the caller keeps the one it
\* selects ("thread = threads[choice - 1]") and the rest of the list is dropped
LoadThreads(now, choice) ==
    /\ run.pc = "idle"
    /\ choice \in 1..Len(load_threads_result(file, now))
    /\ thread' = <<load_threads_result(file, now)[choice]>>
    /\ postedObj' = postedRec[choice]
    /\ last' = LoadOp(file, now)
    /\ calls' = <<>>
    /\ result' = NoResult
    /\ UNCHANGED <<research, savers, file, run, postedRec>>

\* load_threads on a missing or unparseable file: "return []"; there is no
\* Thread to select, the caller keeps what it holds
LoadThreadsEmpty(now) ==
    /\ run.pc = "idle"
    /\ load_threads_result(file, now) = <<>>
    /\ last' = LoadOp(file, now)
    /\ calls' = <<>>
    /\ result' = NoResult
    /\ UNCHANGED <<research, savers, thread, file, run, postedObj, postedRec>>

Next ==
    \/ \E topic \in Topics, g \in Generated \cup NotGenerated :
            ResearchStep(topic, g.research)
    \/ \E g \in Generated : ResearchAndGenerate(g.research, g.compose, g.now)
    \/ \E g \in NotGenerated : ResearchAndGenerateFail(g.research, g.compose)
    \/ \E media_paths \in MediaLists, id_kind \in IdKinds : PostThread(media_paths, id_kind)
    \/ \E mid \in MediaIds : MediaUploadOk(mid)
    \/ \E err \in PlatformErrors : MediaUploadFail(err)
    \/ \E i \in 1..MaxTweets, kind \in IdKinds : CreateTweetOk(TweetId(i, kind))
    \/ \E err \in PlatformErrors : CreateTweetFail(err)
    \/ PostReturn
    \/ SaveThread
    \/ SaveThreadOpenFails
    \/ SaveThreadWriteFails
    \/ \E now \in Times, choice \in 1..MaxHistory : LoadThreads(now, choice)
    \/ \E now \in Times : LoadThreadsEmpty(now)

Spec == Init /\ [][Next]_vars

(* --------------------- ResearchClient on its own ---------------------- *)
\* the program state the research client does not touch
core == <<thread, file, run, calls, result, last, postedObj, postedRec, savers>>

\* the record of one call of a ResearchClient method, the backend doing b
ResearchCall(op, b, outcome) == [op |-> op, backend |-> b, outcome |-> outcome]

ResearchWithSearch(b) ==
    /\ research' = ResearchCall("research_with_search", b, research_with_search(b))
    /\ UNCHANGED core

ResearchWithoutSearch(b) ==
    /\ research' = ResearchCall("research_without_search", b, research_without_search(b))
    /\ UNCHANGED core

GenerateThread(b) ==
    /\ research' = ResearchCall("generate_thread", b, generate_thread(b))
    /\ UNCHANGED core

ResearchNext ==
    \/ \E b \in BackendOutcomes : ResearchWithSearch(b)
    \/ \E b \in BackendOutcomes : ResearchWithoutSearch(b)
    \/ \E b \in BackendOutcomes : GenerateThread(b)

ResearchSpec == Init /\ [][ResearchNext]_vars

(* ------------------ save_thread called concurrently ------------------- *)
\* the Thread caller c holds: callers hold different Threads
HeldThread(c) ==
    LET g == CHOOSE g \in Generated : g.now.sec = c
    IN  Thread("quantum computing", generate_thread(g.compose).value.v,
               research_with_search(g.research).value, g.now)

\* the program state a save_thread call does not touch
unsaved == <<research, thread, run, calls, result, last, postedObj, postedRec>>

\* what a completed save_thread call did: the history it had read and the
\* dict it added
Written(frame) == [base |-> frame.read, record |-> to_dict(frame.thread[1])]

\* caller c enters save_thread(thread, filepath) and reads the history:
\* "with open(filepath, 'r') as f: threads = json.load(f)", [] when the file
\* is missing or does not parse. Nothing is locked.
SaveRead(c) ==
    /\ savers[c].pc = "idle"
    /\ Len(read_history(file)) < MaxHistory
    /\ savers' = [savers EXCEPT ![c] = [IdleSaver EXCEPT !.pc = "read",
                                                         !.thread = <<HeldThread(c)>>,
                                                         !.threads = read_history(file),
                                                         !.read = read_history(file)]]
    /\ UNCHANGED file
    /\ UNCHANGED unsaved

\* "threads.append(thread.to_dict())", then open(filepath, 'w') creates or
\* truncates the file: whoever has it open writes into an empty file from now
SaveOpen(c) ==
    /\ savers[c].pc = "read"
    /\ file' = CorruptFile
    /\ savers' = [d \in Callers |->
                    IF d = c
                    THEN [savers[d] EXCEPT !.pc = "open",
                                           !.threads = add_new_thread(savers[d].threads,
                                                                      to_dict(savers[d].thread[1]))]
                    ELSE [savers[d] EXCEPT !.clobbered = FALSE]]
    /\ UNCHANGED unsaved

\* the frames after caller c wrote and closed the file: c is the last writer,
\* every call that has read and not yet finished missed this save, and a call
\* that has the file open will write over what c wrote
after_dump(c) ==
    [d \in Callers |->
        IF d = c
        THEN [savers[d] EXCEPT !.pc = "idle", !.latest = TRUE]
        ELSE [savers[d] EXCEPT
                !.latest = FALSE,
                !.missed = IF savers[d].pc \in {"read", "open"}
                           THEN Append(savers[d].missed, Written(savers[c]))
                           ELSE savers[d].missed,
                !.clobbered = savers[d].clobbered \/ savers[d].pc = "open"]]

\* "json.dump(threads, f, indent=2)" and the end of the with block: the list
\* of caller c is the content of the file, at least as long as what another
\* caller wrote into it since c opened it
SaveDump(c) ==
    /\ savers[c].pc = "open"
    /\ file' = JsonFile(json_dump(savers[c].threads))
    /\ savers' = after_dump(c)
    /\ UNCHANGED unsaved

\* the same, but another caller wrote a longer text into the file after c
\* opened it: the text of c is followed by the rest of the other text, which
\* does not parse
SaveDumpOver(c) ==
    /\ savers[c].pc = "open"
    /\ savers[c].clobbered
    /\ file' = CorruptFile
    /\ savers' = after_dump(c)
    /\ UNCHANGED unsaved

SaveRaceNext ==
    \/ \E c \in Callers : SaveRead(c)
    \/ \E c \in Callers : SaveOpen(c)
    \/ \E c \in Callers : SaveDump(c)
    \/ \E c \in Callers : SaveDumpOver(c)

SaveRaceSpec == Init /\ [][SaveRaceNext]_vars

(* ============================== claims ================================ *)
IsCreate(c) == c.api = "create_tweet"

\* the create_tweet calls of the run, in the order they were made
Creates == SelectSeq(calls, IsCreate)

\* C1: in post_thread and post_thread_with_media the create_tweet call for the
\* first post carries no reply-to id, and the call for every later post
\* carries the id the platform returned for the post just before it.
C1_ReplyChain ==
    \A k \in 1..Len(Creates) :
        /\ Creates[k].i = k
        /\ Creates[k].in_reply_to_tweet_id =
              IF k = 1 THEN NoId ELSE Creates[k - 1].response

\* C1 witness: a second post was submitted, with and without media
C1_Witness ==
    /\ Len(Creates) >= 2
    /\ Creates[2].in_reply_to_tweet_id # NoId
    /\ Creates[2].media_ids.some

\* C2: when every platform call of a run succeeds the run returns one id per
\* post, and the id at position i is (the text of) the id the platform
\* returned for the post at input position i.
C2_OneIdPerPostInOrder ==
    result.kind = "returned" =>
        /\ Len(result.tweet_ids) = Len(result.before[1].tweets)
        /\ Len(Creates) = Len(result.tweet_ids)
        /\ \A k \in 1..Len(Creates) :
              /\ Creates[k].text = result.before[1].tweets[k]
              /\ result.tweet_ids[k] = str(Creates[k].response)

\* C2 witness: a run over two posts returned, the platform gave int ids
C2_Witness ==
    /\ result.kind = "returned"
    /\ Len(result.tweet_ids) >= 2
    /\ Creates[1].response.kind = "int"

\* C3: when the platform fails at index k the failure handed to the caller
\* carries completedIds (the ids of posts 0..k-1, in order) and failureIndex k.
C3_PartialFailureReported ==
    result.kind = "raised" =>
        /\ "completedIds" \in DOMAIN result.exc
        /\ "failureIndex" \in DOMAIN result.exc
        /\ result.exc.completedIds =
              [k \in 1..(Len(Creates) - 1) |-> str(Creates[k].response)]
        /\ result.exc.failureIndex = calls[Len(calls)].i - 1

\* C4: once a platform call (media upload or create_tweet) of a run has
\* failed no further platform call is made in that run: the failed call is
\* the last one, the run is over, and no index is submitted twice.
C4_NoCallAfterFailure ==
    /\ \A k \in 1..Len(calls) :
          calls[k].raised # "" => (k = Len(calls) /\ run.pc = "idle")
    /\ \A j, k \in 1..Len(calls) :
          (j < k /\ calls[j].api = calls[k].api) => calls[j].i < calls[k].i

\* C4 witness: a run was cut short by a failure with posts still pending
C4_Witness ==
    /\ result.kind = "raised"
    /\ Len(calls) >= 2
    /\ calls[Len(calls)].raised # ""
    /\ calls[Len(calls)].i < Len(thread[1].tweets)

\* C5: a Thread's tweet_ids is None exactly when no publish run has completed
\* successfully for it, and when present it has one id per post; this holds
\* for the Thread in memory and for every record of the history, and a Thread
\* just returned by research_and_generate has tweet_ids None.
C5_TweetIdsIffPublished ==
    /\ thread # <<>> =>
          /\ thread[1].tweet_ids.some <=> postedObj
          /\ thread[1].tweet_ids.some =>
                Len(thread[1].tweet_ids.val) = Len(thread[1].tweets)
    /\ \A k \in 1..Len(file.text) :
          /\ (file.text[k].tweet_ids.j = "array") <=> postedRec[k]
          /\ file.text[k].tweet_ids.j = "array" =>
                Len(file.text[k].tweet_ids.items) = Len(file.text[k].tweets)
    /\ (last.op = "research_and_generate" /\ last.raised = "") =>
          thread[1].tweet_ids = PyNone

\* C5 witness: a Posted Thread read back from a history that also holds a Draft
C5_Witness ==
    /\ last.op = "load_threads"
    /\ thread # <<>>
    /\ thread[1].tweet_ids.some
    /\ \E k \in 1..Len(file.text) : file.text[k].tweet_ids = JNull

\* C6: when post_thread fails the Thread passed in is exactly as it was
\* before the call: a Draft is still a Draft, a Posted thread keeps its
\* earlier tweet_ids, and the posts are unchanged.
C6_FailureLeavesThread ==
    result.kind = "raised" => thread = result.before

\* C6 witness: re-posting a Posted thread failed after a post had gone out
C6_Witness ==
    /\ result.kind = "raised"
    /\ thread[1].tweet_ids.some
    /\ Len(Creates) >= 2

\* the latest operation was a save_thread that returned
Saved == last.op = "save_thread" /\ last.raised = ""

\* record r is the record of Thread t: same topic and creation timestamp
SameThread(r, t) == r.topic = t.topic /\ r.created_at = isoformat(t.created_at)

\* positions of the records of Thread t in the record list recs
RecordsOf(recs, t) == {p \in 1..Len(recs) : SameThread(recs[p], t)}

\* C7: after a successful save_thread the history is the history stored
\* before the call (empty when the file was missing or did not parse) followed
\* by the serialized thread; every earlier record is unchanged and in place.
C7_SaveAppends ==
    Saved =>
        /\ file.state = "json"
        /\ Len(file.text) = Len(last.stored) + 1
        /\ \A k \in 1..Len(last.stored) : file.text[k] = last.stored[k]
        /\ file.text[Len(file.text)] = json_dump_record(to_dict(thread[1]))

\* C7 witness: a save onto a history that already held a record
C7_Witness == Saved /\ Len(last.stored) >= 1

\* a thread saved as a Draft has been published and has just been saved again
ResavedAfterPublish ==
    /\ Saved
    /\ thread[1].tweet_ids.some
    /\ \E p \in RecordsOf(last.stored, thread[1]) : last.stored[p].tweet_ids = JNull

C10_RoundTrip ==
    Saved =>
        \A now \in Times :
            LET loaded == load_threads_result(file, now)
                t == loaded[Len(loaded)]
            IN  /\ Len(loaded) >= 1
                /\ t.topic = thread[1].topic
                /\ t.tweets = thread[1].tweets
                /\ t.research_data = thread[1].research_data
                /\ t.tweet_ids = thread[1].tweet_ids
                /\ t.created_at = thread[1].created_at

\* C10 witness: a Posted thread with a microsecond timestamp was saved
C10_Witness ==
    /\ Saved
    /\ thread[1].tweet_ids.some
    /\ thread[1].created_at.us # 0

\* C11: load_threads on a path whose file is missing or does not parse as
\* JSON returns the empty list and raises nothing; the file is left as it
\* was, so a second call returns the empty list again.
C11_LoadToleratesMissingOrCorrupt ==
    (last.op = "load_threads" /\ last.before.val.state # "json") =>
        /\ last.raised = ""
        /\ last.returned = PySome(<<>>)
        /\ file = last.before.val
        /\ \A now \in Times :
              /\ load_threads_raised(file) = ""
              /\ load_threads_result(file, now) = <<>>

\* C11 witness: load_threads ran on a file that a failed write left unparseable
C11_Witness ==
    /\ last.op = "load_threads"
    /\ last.before.val.state = "corrupt"
    /\ last.returned.some

(* ------------------- claims about the research client ----------------- *)
\* the two research operations
ResearchOps == {"research_with_search", "research_without_search"}

\* the latest call was op and the backend returned a response
Responded(op) == research.op = op /\ ~research.backend.raised

\* a code block: the opening marker on a line of its own or followed by the
\* language tag, the text, and the closing marker on a line of its own
CodeBlocks == {"block", "block json", "block JSON", "block padded", "block json line"}

\* what the research method of that name gives when the backend does b
research_outcome(op, b) ==
    CASE op = "research_with_search" -> research_with_search(b)
      [] op = "research_without_search" -> research_without_search(b)
      [] op = "generate_thread" -> generate_thread(b)

\* C12: for every JSON text J, research_with_search and generate_thread give
\* for the response that holds J in a code block (three backticks, with or
\* without the "json" tag) the value they give for the response J itself,
\* which for research_with_search is the value J denotes.
C12_CodeBlockSameAsPlain ==
    \A op \in {"research_with_search", "generate_thread"}, J \in JsonTexts, w \in CodeBlocks :
        (Responded(op) /\ research.backend.text = wrap(w, J)) =>
            /\ research.outcome.loads
            /\ research.outcome.kind = research_outcome(op, BackendReturns(J)).kind
            /\ research.outcome.value = research_outcome(op, BackendReturns(J)).value
            /\ op = "research_with_search" =>
                  research.outcome.value = json_loads(J).val

\* C12 witness: generate_thread returned the tweets of a block tagged json
C12_Witness ==
    /\ Responded("generate_thread")
    /\ research.backend.text = wrap("block json", TweetsJson)
    /\ research.outcome.kind = "returned"
    /\ Len(research.outcome.value.v) = 2

\* C13: when the response text is empty both research operations return the
\* record with error "No response generated", and json.loads is not called.
C13_EmptyResponse ==
    \A op \in ResearchOps :
        (Responded(op) /\ research.backend.text = <<>>) =>
            /\ research.outcome.kind = "returned"
            /\ research.outcome.value.ty = "dict"
            /\ DOMAIN research.outcome.value.v = {<<"error">>, <<"details">>}
            /\ research.outcome.value.v[<<"error">>] = PyStr(<<"No response generated">>)
            /\ ~research.outcome.loads

\* C13 witness: research_without_search got an empty response text
C13_Witness ==
    /\ Responded("research_without_search")
    /\ research.backend.text = <<>>

\* the text the extraction step of section 4.1 leaves of a response text
extracted(text) == strip(remove_code_block(strip(text)))

\* C14: for every non-empty response that does not parse as JSON after
\* extraction the research operations return the record with error "Invalid
\* JSON response" whose details is the text the model returned.
C14_DetailsIsRawText ==
    \A op \in ResearchOps :
        (/\ Responded(op)
         /\ research.backend.text # <<>>
         /\ ~json_loads(extracted(research.backend.text)).ok) =>
            /\ research.outcome.kind = "returned"
            /\ research.outcome.value =
                  error_record("Invalid JSON response", research.backend.text)

\* C15: when the backend call raises, research_with_search and
\* research_without_search return the record with error "Research failed" and
\* the message of the exception as details; nothing is raised.
C15_BackendErrorReturned ==
    (research.op \in ResearchOps /\ research.backend.raised) =>
        /\ research.outcome.kind = "returned"
        /\ research.outcome.value =
              error_record("Research failed", <<research.backend.message>>)

\* C15 witness: the backend call of research_with_search raised
C15_Witness ==
    /\ research.op = "research_with_search"
    /\ research.backend.raised
    /\ research.outcome.value.ty = "dict"

\* the response text is a JSON object without a "citations" member
LacksCitations(text) ==
    /\ json_loads(text).ok
    /\ json_loads(text).val.ty = "dict"
    /\ <<"citations">> \notin DOMAIN json_loads(text).val.v

\* C16: for every response that is a well-formed JSON object without a
\* citations field, research_without_search returns the record without
\* citations and research_with_search returns the record with citations = [].
C16_CitationsDefaultEmpty ==
    \A op \in ResearchOps :
        (Responded(op) /\ LacksCitations(research.backend.text)) =>
            /\ research.outcome.kind = "returned"
            /\ research.outcome.value.ty = "dict"
            /\ <<"error">> \notin DOMAIN research.outcome.value.v
            /\ op = "research_without_search" =>
                  <<"citations">> \notin DOMAIN research.outcome.value.v
            /\ op = "research_with_search" =>
                  /\ <<"citations">> \in DOMAIN research.outcome.value.v
                  /\ research.outcome.value.v[<<"citations">>] = PyList(<<>>)

\* the kind of outcome of a research operation: the error of an error
\* record, "raised", or "success"
OutcomeKind(o) ==
    CASE o.kind = "raised" -> "raised"
      [] o.kind = "returned" /\ o.value.ty = "dict" /\ <<"error">> \in DOMAIN o.value.v ->
            o.value.v[<<"error">>].v[1]
      [] OTHER -> "success"

\* C17: for every response (plain, padded with whitespace, in a code block)
\* research_without_search gives the kind of outcome research_with_search
\* gives and, on success, the same value.
C17_SameContract ==
    research.op = "research_with_search" =>
        /\ OutcomeKind(research_without_search(research.backend)) =
              OutcomeKind(research.outcome)
        /\ OutcomeKind(research.outcome) = "success" =>
              research_without_search(research.backend).value = research.outcome.value

\* the tweet list TweetsJson denotes
TweetsValue ==
    PyList(<<PyStr(<<"Tweet 1 about quantum">>), PyStr(<<"Tweet 2 #quantum">>)>>)

\* the ways of dressing a text that the extraction step undoes
Undone == CodeBlocks \cup {"plain", "padded"}

\* C18: generate_thread returns exactly when the extracted response is a
\* non-empty JSON array, and then returns that list; for an empty array, an
\* object, a scalar, text that does not parse, an empty response and a
\* backend exception it raises ResearchError and returns nothing.
C18_NonEmptyListOrFailure ==
    research.op = "generate_thread" =>
        /\ research.outcome.kind = "returned" <=>
              /\ ~research.backend.raised
              /\ \E w \in Undone : research.backend.text = wrap(w, TweetsJson)
        /\ research.outcome.kind = "returned" => research.outcome.value = TweetsValue
        /\ research.outcome.kind # "returned" =>
              /\ research.outcome.kind = "raised"
              /\ research.outcome.value.ty = "ResearchError"

\* C18 witness: the model answered generate_thread with an empty array
C18_Witness ==
    /\ Responded("generate_thread")
    /\ research.backend.text = wrap("block", EmptyArrayJson)
    /\ research.outcome.kind = "raised"

\* C19: every value research_with_search or research_without_search returns
\* is a research record (analysis and key_findings, and citations from
\* research_with_search) or an error + details pair, and nothing else.
C19_RecordOrErrorPair ==
    research.op \in ResearchOps =>
        /\ research.outcome.kind = "returned"
        /\ research.outcome.value.ty = "dict"
        /\ \/ DOMAIN research.outcome.value.v = {<<"error">>, <<"details">>}
           \/ /\ research.op = "research_with_search"
              /\ DOMAIN research.outcome.value.v =
                    {<<"analysis">>, <<"key_findings">>, <<"citations">>}
           \/ /\ research.op = "research_without_search"
              /\ DOMAIN research.outcome.value.v = {<<"analysis">>, <<"key_findings">>}

(* ----------------------- claims about post texts ---------------------- *)
\* len(s) of a Python str: the characters of its pieces
RECURSIVE CharLen(_)
CharLen(pieces) == IF pieces = <<>> THEN 0 ELSE Len(Head(pieces)) + CharLen(Tail(pieces))

\* every text of the tweet list is within the limit
WithinLimit(tweets) == \A k \in 1..Len(tweets) : CharLen(tweets[k].v) <= TweetLimit

\* C20: in every reachable state every post text of every Thread (held by the
\* caller after research_and_generate or load_threads, stored in the history,
\* or handed to the publishing loop) has at most 280 characters.
C20_PostsWithinLimit ==
    /\ thread # <<>> => WithinLimit(thread[1].tweets)
    /\ \A k \in 1..Len(file.text) : WithinLimit(file.text[k].tweets)
    /\ WithinLimit(run.tweets)

(* ------------------------ claims about the store ---------------------- *)
\* C21: save_thread either succeeds, or fails with ThreadStorageError and
\* leaves the history file with the content it had before the call; no
\* failure leaves the file truncated or partly written.
C21_SaveAllOrNothing ==
    last.op = "save_thread" =>
        \/ /\ last.raised = ""
           /\ file = JsonFile(Append(last.stored, json_dump_record(to_dict(thread[1]))))
        \/ /\ last.raised = "ThreadStorageError"
           /\ file = last.before.val

(* ----------------------- claims about media --------------------------- *)
\* C22: in a publish run with media, the upload for index i is the call made
\* right after post i-1 was given its id and right before create_tweet for
\* post i, that create_tweet carries exactly the media id the upload returned,
\* and a post whose index has no media entry is created with no media.
C22_UploadJustBeforeItsPost ==
    last.op = "post_thread" =>
        \A k \in 1..Len(calls) :
            LET c == calls[k]
                has_entry == c.i <= Len(last.media_paths)
            IN  /\ c.api = "media_upload" =>
                    /\ has_entry /\ c.text = last.media_paths[c.i]
                    /\ IF c.i = 1
                       THEN k = 1
                       ELSE /\ k > 1
                            /\ calls[k - 1].api = "create_tweet"
                            /\ calls[k - 1].i = c.i - 1
                            /\ calls[k - 1].raised = ""
                            /\ calls[k - 1].response # NoId
                    /\ \A j \in 1..Len(calls) :
                           calls[j].api = "create_tweet" /\ calls[j].i = c.i => j = k + 1
                /\ c.api = "create_tweet" =>
                    IF has_entry
                    THEN /\ k > 1
                         /\ calls[k - 1].api = "media_upload"
                         /\ calls[k - 1].i = c.i
                         /\ calls[k - 1].raised = ""
                         /\ c.media_ids = PySome(<<calls[k - 1].response>>)
                    ELSE /\ c.media_ids = PyNone
                         /\ \A j \in 1..Len(calls) :
                                calls[j].api = "media_upload" => calls[j].i # c.i

\* a run of two posts with one media path returned: one upload, the first
\* post with its media id, the second with none
C22_Witness ==
    /\ result.kind = "returned"
    /\ Len(last.media_paths) = 1
    /\ Len(calls) = 3
    /\ calls[1].api = "media_upload"
    /\ calls[2].media_ids = PySome(<<calls[1].response>>)
    /\ calls[3].media_ids = PyNone

(* -------------- claims about research_and_generate -------------------- *)
\* the calls research_and_generate has made to the AI backend so far
BackendLog == last.backend

InResearchAndGenerate == last.op \in {"research_with_search", "research_and_generate"}

\* C23: in research_and_generate the compose call is made only after the
\* research call has returned, its prompt embeds the value the research call
\* returned, and the backend is called at most once for research and at most
\* once for compose.
C23_ResearchThenCompose ==
    InResearchAndGenerate =>
        /\ Len(BackendLog) \in 1..2
        /\ BackendLog[1].method = "research_with_search"
        /\ BackendLog[1].outcome.kind = "returned"
        /\ (Len(BackendLog) = 1) <=> (run.pc = "compose")
        /\ Len(BackendLog) = 2 =>
              /\ BackendLog[2].method = "generate_thread"
              /\ BackendLog[2].prompt.embedded = json_dumps(BackendLog[1].outcome.value)
              /\ json_loads(BackendLog[2].prompt.embedded) =
                     [ok |-> TRUE, val |-> BackendLog[1].outcome.value]

\* research returned the record asked for and compose returned a list
C23_Witness ==
    /\ last.op = "research_and_generate"
    /\ last.raised = ""
    /\ Len(BackendLog) = 2
    /\ BackendLog[1].outcome.value = ResearchRecord
    /\ thread[1].research_data = ResearchRecord

\* C26: research_and_generate does not stop when research_with_search returns
\* an error pair: the compose call is still made, with the error pair as its
\* input, and when it succeeds the call returns a Draft Thread whose
\* research_data is the error pair.
C26_ErrorRecordIsComposed ==
    (InResearchAndGenerate /\ is_error_record(BackendLog[1].outcome.value)) =>
        /\ last.op = "research_with_search" =>
              /\ run.pc = "compose"
              /\ last.raised = ""
              /\ run.research_data = PySome(BackendLog[1].outcome.value)
        /\ last.op = "research_and_generate" =>
              /\ Len(BackendLog) = 2
              /\ BackendLog[2].prompt = thread_prompt(BackendLog[1].outcome.value)
              /\ BackendLog[2].outcome.kind = "returned" =>
                    /\ last.raised = ""
                    /\ thread[1].research_data = BackendLog[1].outcome.value
                    /\ thread[1].tweets = BackendLog[2].outcome.value.v
                    /\ thread[1].tweet_ids = PyNone

\* the research response did not parse and compose returned a list
C26_Witness ==
    /\ last.op = "research_and_generate"
    /\ last.raised = ""
    /\ BackendLog[1].outcome.value = ResearchFailure
    /\ BackendLog[2].outcome.kind = "returned"
    /\ thread[1].research_data = ResearchFailure

(* ------------------- claims about what is left alone ------------------ *)
\* Threads a and b agree in everything but tweet_ids
SameContent(a, b) ==
    /\ a.topic = b.topic
    /\ a.tweets = b.tweets
    /\ a.research_data = b.research_data
    /\ a.created_at = b.created_at

\* one step of post_thread, save_thread or load_threads and what it may do
\* to the Thread the caller holds
FrameStep ==
    /\ last'.op = "post_thread" =>
          /\ thread # <<>> /\ thread' # <<>>
          /\ SameContent(thread[1], thread'[1])
          /\ result'.kind # "returned" => thread' = thread
    /\ last'.op = "save_thread" => thread' = thread
    /\ last'.op = "load_threads" =>
          \/ thread' = thread
          \/ /\ last'.returned.some
             /\ \E k \in 1..Len(last'.returned.val) : thread' = <<last'.returned.val[k]>>

\* C24: post_thread, save_thread and load_threads never change a Thread's
\* topic, tweets, research_data or created_at: a successful post_thread
\* changes only tweet_ids, save_thread changes no field of the Thread in
\* memory, and load_threads leaves the held Thread alone or hands the caller
\* one of the objects it built from the file.
C24_OnlyTweetIdsChange == [][FrameStep]_vars

\* a publish run returned for a Thread that has content to keep, and the
\* Thread now carries the ids
C24_Witness ==
    /\ result.kind = "returned"
    /\ last.op = "post_thread"
    /\ result.before[1].tweet_ids = PyNone
    /\ thread[1].tweet_ids = PySome(result.tweet_ids)
    /\ SameContent(thread[1], result.before[1])

(* ----------------- claims about concurrent saves ---------------------- *)
\* the saves caller c missed that started from the history c started from
SameBase(c) ==
    {k \in 1..Len(savers[c].missed) : savers[c].missed[k].base = savers[c].read}

\* caller c was the last to write and the file holds what it wrote
WroteLast(c) == savers[c].latest /\ file.state = "json"

\* C25: save_thread holds no lock between reading the history and writing it
\* back: when two calls on one path interleave, both reading before either
\* writes, the history the later writer leaves is what it read plus its own
\* record and nothing else, so of the two appends one is lost.
C25_LaterWriterDropsOtherAppend ==
    \A c \in Callers :
        WroteLast(c) =>
            /\ file.text = json_dump(Append(savers[c].read, to_dict(savers[c].thread[1])))
            /\ SameBase(c) # {} => Len(file.text) = Len(savers[c].read) + 1

\* two callers read the same history, both saves completed, and the record of
\* the first writer is nowhere in the file
C25_Witness ==
    \E c \in Callers :
        /\ WroteLast(c)
        /\ \E k \in SameBase(c) :
              \A p \in 1..Len(file.text) :
                  file.text[p] # json_dump_record(savers[c].missed[k].record)

====
